---------------------------- MODULE Spec2Model ----------------------------
(***************************************************************************)
(* Model of src/git.rs: clone_and_resolve / clone_with_ref_fallback (the   *)
(* clone resolver), fetch_and_checkout (the refresh operator) and          *)
(* validate_path_exists (the path validator).                              *)
(*                                                                         *)
(* The git2 library, the network and the filesystem are the environment:   *)
(* every library call may fail, and succeeds only where the library's      *)
(* contract allows it (a clone needs an absent or empty target directory   *)
(* and the requested branch on the remote; a default checkout is libgit2's *)
(* SAFE strategy against the HEAD tree).                                   *)
(***************************************************************************)
EXTENDS Naturals, Sequences, FiniteSets, TLC

(***************************************************************************)
(* Bounds and the finite universe.                                         *)
(***************************************************************************)
\* Number of pushes the remote receives during one behaviour.
MaxPush == 1
\* Callers (threads).  Only the callers a specification names ever move.
Procs == {"p1", "p2"}

\* Names TempDir::new can draw for the ephemeral directory.
Dirs == {"t1", "t2"}
NoDir == "none"

\* Branch names of the remote, ref names a caller passes.
Branches == {"main", "master"}
GitRefs == {"auto", "main", "master"}
NoRef == "none"

\* Commit ids (object ids as numbers) and "no such commit".
Commits == {10, 27, 171}
NoCommit == 0

\* Tracked files of a tree, and the blob a commit's tree holds for each.
Files == {"f"}
NoBlob == "none"
Tree(c) == [f \in Files |-> IF c = 27 THEN "b" ELSE IF c \in Commits THEN "a" ELSE NoBlob]

\* URLs, as character sequences.
UrlGitAt == <<"g", "i", "t", "@", "h">>
UrlSsh == <<"s", "s", "h", ":", "/", "/", "h">>
UrlHttps == <<"h", "t", "t", "p", "s", ":", "/", "/", "h">>
UrlShort == <<"g", "i", "t">>
Urls == {UrlGitAt, UrlSsh, UrlHttps, UrlShort}

\* Descriptions of the errors the library reports.
ErrTexts == {"e1", "e2"}
NoErr == "none"

VARIABLES
    remote,     \* the remote repository: branch -> commit id or NoCommit
    pushes,     \* pushes the remote has received
    fs,         \* the filesystem: directory name -> its state
    clone,      \* per caller: the clone_and_resolve call in progress
    held,       \* the ResolvedGitSource values callers hold
    refresh,    \* per caller: the fetch_and_checkout call in progress
    validate    \* per caller: the validate_path_exists call that returned

vars == <<remote, pushes, fs, clone, held, refresh, validate>>

(***************************************************************************)
(* Strings.                                                                *)
(***************************************************************************)
\* str::starts_with
StartsWith(s, prefix) ==
    /\ Len(s) >= Len(prefix)
    /\ SubSeq(s, 1, Len(prefix)) = prefix

HexDigit(n) ==
    <<"0", "1", "2", "3", "4", "5", "6", "7", "8", "9", "a", "b", "c", "d", "e", "f">>[n + 1]

\* Oid::to_string: the id in hexadecimal, fixed width, most significant digit
\* first (two digits stand for the forty of a SHA-1).
OidToString(o) == <<HexDigit((o \div 16) % 16), HexDigit(o % 16)>>

NoSha == <<>>

(***************************************************************************)
(* Directory states.                                                       *)
(*   absent  - no such directory                                           *)
(*   empty   - an empty directory                                          *)
(*   partial - what a failed clone left behind                            *)
(*   repo    - a repository with a working tree                            *)
(***************************************************************************)
DirAbsent ==
    [kind |-> "absent", residue |-> FALSE, branch |-> NoRef, head |-> NoCommit,
     fetch_head |-> NoCommit, wt |-> [f \in Files |-> NoBlob]]
DirEmpty == [DirAbsent EXCEPT !.kind = "empty"]
DirPartial == [DirAbsent EXCEPT !.kind = "partial", !.residue = TRUE]
\* A fresh clone of branch b at commit c: HEAD names b, the tree is checked out.
DirRepo(b, c) ==
    [kind |-> "repo", residue |-> FALSE, branch |-> b, head |-> c,
     fetch_head |-> NoCommit, wt |-> Tree(c)]

\* std::fs::remove_dir_all on a directory in state s: it removes everything, or
\* fails having removed nothing or only some of the content.
RemoveDirAll(s) ==
    IF s.kind = "absent" THEN {s}
    ELSE {DirAbsent, s} \cup (IF s.kind = "repo" THEN {DirPartial} ELSE {})


(***************************************************************************)
(* Results and messages.  A message is the sequence of the pieces format!  *)
(* puts together.                                                          *)
(***************************************************************************)
NoResult == [tag |-> "none", message |-> <<>>]
Ok == [tag |-> "Ok", message |-> <<>>]
\* ApsError::io(e, context)
IoError(context) == [tag |-> "Io", message |-> <<context>>]
\* ApsError::GitError { message }
GitError(message) == [tag |-> "GitError", message |-> message]

\* format!("{:?}", Vec<String>): ["a", "b"]
RECURSIVE DebugItems(_)
DebugItems(refs) ==
    IF Len(refs) = 0 THEN <<>>
    ELSE IF Len(refs) = 1 THEN <<"\"", refs[1], "\"">>
    ELSE <<"\"", refs[1], "\"", ", ">> \o DebugItems(Tail(refs))
DebugVec(refs) == <<"[">> \o DebugItems(refs) \o <<"]">>

(***************************************************************************)
(* clone_and_resolve and clone_with_ref_fallback.                          *)
(***************************************************************************)
NoSource == [temp_dir |-> NoDir, repo_path |-> NoDir, resolved_ref |-> NoRef,
             commit_sha |-> NoSha]

CloneIdle ==
    [pc |-> "idle", url |-> <<>>, git_ref |-> NoRef, shallow |-> FALSE,
     temp_dir |-> NoDir, repo_path |-> NoDir, is_ssh |-> FALSE, refs |-> <<>>,
     idx |-> 1, last_error |-> NoErr, attempts |-> <<>>, resolved_ref |-> NoRef,
     pre |-> "none", head_commit |-> NoCommit, result |-> NoResult, value |-> NoSource]

\* Mutant: the prefix tested is "git", without the "@".
IsSsh_git(url) ==
    \/ StartsWith(url, <<"g", "i", "t">>)
    \/ StartsWith(url, <<"s", "s", "h", ":", "/", "/">>)

\* let is_ssh = url.starts_with("git@") || url.starts_with("ssh://");
IsSsh(url) ==
    \/ StartsWith(url, <<"g", "i", "t", "@">>)
    \/ StartsWith(url, <<"s", "s", "h", ":", "/", "/">>)

\* Mutant: a third candidate for "auto", a retry for any other ref.
RefsToTry_more(git_ref) ==
    IF git_ref = "auto" THEN <<"main", "master", "main">> ELSE <<git_ref, git_ref>>

\* let refs_to_try = if git_ref == "auto" { vec!["main", "master"] } else { vec![git_ref] };
RefsToTry(git_ref) ==
    IF git_ref = "auto" THEN <<"main", "master">> ELSE <<git_ref>>

\* fetch_and_checkout's locals, and the result of validate_path_exists.
RefreshIdle ==
    [pc |-> "idle", repo_path |-> NoDir, git_ref |-> NoRef, steps |-> <<>>,
     origin_url |-> <<>>, creds |-> FALSE, fetched |-> NoCommit, commit |-> NoCommit,
     commit_sha |-> NoSha, before |-> DirAbsent, result |-> NoResult,
     value |-> [ref |-> NoRef, sha |-> NoSha]]
ValidateIdle ==
    [pc |-> "idle", repo_path |-> <<>>, asset_path |-> <<>>,
     result |-> NoResult, path |-> <<>>]

\* Every call blocks its caller: a caller is in one call at a time.
Idle(p) ==
    /\ clone[p].pc = "idle"
    /\ refresh[p].pc = "idle"
    /\ validate[p].pc = "idle"

\* The caller enters clone_and_resolve(url, git_ref, shallow).
CloneCall(p, url, git_ref, shallow) ==
    /\ Idle(p)
    /\ clone' = [clone EXCEPT ![p] =
            [CloneIdle EXCEPT !.pc = "tempdir", !.url = url, !.git_ref = git_ref,
                              !.shallow = shallow]]
    /\ UNCHANGED <<remote, pushes, fs, held, refresh, validate>>

\* What the credential callback of an attempt gets from the SSH agent: nothing
\* is asked when no callback is attached; a callback that is attached gets a key
\* or finds no agent to reach.
NoAgentUse == "none"
AgentReplies == {"key", "unreachable"}

\* if is_ssh { callbacks.credentials(|..| Cred::ssh_key_from_agent(..)) }
AgentOutcomes(is_ssh) == IF is_ssh THEN AgentReplies ELSE {NoAgentUse}

\* One entry per call of builder.clone: what was asked, what the agent replied,
\* what the target directory was before the purge (pre) and at the call
\* (target), and what came back.
Attempt(c, agent, target, ok, err, commit) ==
    [ref |-> c.refs[c.idx],
     creds |-> c.is_ssh,
     agent |-> agent,
     depth |-> IF c.shallow THEN 1 ELSE 0,
     pre |-> c.pre, target |-> target, ok |-> ok, err |-> err, commit |-> commit]

\* TempDir::new() and the lines up to the call of clone_with_ref_fallback.
TempDirNew(p) ==
    /\ clone[p].pc = "tempdir"
    /\ \/ /\ clone' = [clone EXCEPT ![p].pc = "done",
                ![p].result = IoError("Failed to create temp directory for git clone")]
          /\ UNCHANGED fs
       \/ \E d \in Dirs :
            /\ fs[d].kind = "absent"
            /\ fs' = [fs EXCEPT ![d] = DirEmpty]
            /\ clone' = [clone EXCEPT ![p].pc = "loop",
                    ![p].temp_dir = d, ![p].repo_path = d,
                    ![p].is_ssh = IsSsh(clone[p].url),
                    ![p].refs = RefsToTry(clone[p].git_ref)]
    /\ UNCHANGED <<remote, pushes, held, refresh, validate>>

\* if path.exists() { let _ = std::fs::remove_dir_all(path); }
PurgeOutcomes(s) == IF s.kind # "absent" THEN RemoveDirAll(s) ELSE {s}

\* The head of the for loop with the purge of the previous attempt.
LoopPurge(p) ==
    LET c == clone[p] IN
    /\ c.pc = "loop"
    /\ c.idx <= Len(c.refs)
    /\ \E s \in PurgeOutcomes(fs[c.repo_path]) :
            fs' = [fs EXCEPT ![c.repo_path] = s]
    /\ clone' = [clone EXCEPT ![p].pc = "clone", ![p].pre = fs[c.repo_path].kind]
    /\ UNCHANGED <<remote, pushes, held, refresh, validate>>

\* Mutant: a success does not return, the loop goes on to the next ref.
OnCloneOk_continue(c, a) ==
    [c EXCEPT !.pc = "loop", !.attempts = Append(c.attempts, a), !.pre = "none",
              !.resolved_ref = c.refs[c.idx], !.idx = c.idx + 1]

\* Mutant: the name returned is the first candidate's, not the one that succeeded.
OnCloneOk_first(c, a) ==
    [c EXCEPT !.pc = "head", !.attempts = Append(c.attempts, a), !.pre = "none",
              !.resolved_ref = c.refs[1]]

\* Ok(repo) => return Ok((repo, ref_name.to_string()))
OnCloneOk(c, a) ==
    [c EXCEPT !.pc = "head", !.attempts = Append(c.attempts, a), !.pre = "none",
              !.resolved_ref = c.refs[c.idx]]

\* Mutant: an unreachable agent ends the call at once with an error of its own.
OnCloneErr_agent(c, a) ==
    IF a.agent = "unreachable"
    THEN [c EXCEPT !.pc = "done", !.attempts = Append(c.attempts, a), !.pre = "none",
                   !.last_error = a.err,
                   !.result = [tag |-> "CredentialError", message |-> <<a.err>>]]
    ELSE [c EXCEPT !.pc = "loop", !.attempts = Append(c.attempts, a), !.pre = "none",
                   !.last_error = a.err, !.idx = c.idx + 1]

\* Mutant: last_error keeps the first error instead of the last.
OnCloneErr_first(c, a) ==
    [c EXCEPT !.pc = "loop", !.attempts = Append(c.attempts, a), !.pre = "none",
              !.last_error = IF c.last_error = NoErr THEN a.err ELSE c.last_error,
              !.idx = c.idx + 1]

\* Err(e) => last_error = Some(e), and on to the next ref
OnCloneErr(c, a) ==
    [c EXCEPT !.pc = "loop", !.attempts = Append(c.attempts, a), !.pre = "none",
              !.last_error = a.err, !.idx = c.idx + 1]

\* What a failed builder.clone leaves of a target it was allowed to write to.
CloneFailureLeaves(s) ==
    IF s.kind \in {"absent", "empty"} THEN {DirAbsent, DirEmpty, DirPartial} ELSE {s}

\* builder.clone(url, path) with the options of this attempt.  It returns Ok only
\* with the branch on the remote, a target it may write to and, over SSH, a key
\* from the agent; any error it returns is a git2::Error like any other.
CloneAttempt(p) ==
    LET c == clone[p]
        ref_name == c.refs[c.idx]
        target == fs[c.repo_path]
    IN
    /\ c.pc = "clone"
    /\ \E agent \in AgentOutcomes(c.is_ssh) :
        \/ /\ remote[ref_name] # NoCommit
           /\ target.kind \in {"absent", "empty"}
           /\ agent # "unreachable"
           /\ fs' = [fs EXCEPT ![c.repo_path] = DirRepo(ref_name, remote[ref_name])]
           /\ clone' = [clone EXCEPT ![p] =
                OnCloneOk(c, Attempt(c, agent, target.kind, TRUE, NoErr, remote[ref_name]))]
        \/ \E e \in ErrTexts, s \in CloneFailureLeaves(target) :
            /\ fs' = [fs EXCEPT ![c.repo_path] = s]
            /\ clone' = [clone EXCEPT ![p] =
                OnCloneErr(c, Attempt(c, agent, target.kind, FALSE, e, NoCommit))]
    /\ UNCHANGED <<remote, pushes, held, refresh, validate>>

\* let error_detail = last_error.map(|e| format!(": {}", e)).unwrap_or_default();
ErrorDetail(last_error) ==
    IF last_error = NoErr THEN <<>> ELSE <<": ", last_error>>

\* format!("Failed to clone with refs {:?}{}", refs, error_detail)
ExhaustedMessage(refs, last_error) ==
    <<"Failed to clone with refs ">> \o DebugVec(refs) \o ErrorDetail(last_error)

\* An early return of clone_and_resolve drops temp_dir: TempDir's Drop removes
\* the directory and ignores the outcome.
DropTempDir(c) ==
    \E s \in RemoveDirAll(fs[c.temp_dir]) :
        fs' = [fs EXCEPT ![c.temp_dir] = s]

\* All refs failed: the error of clone_with_ref_fallback, passed on by `?`.
Exhausted(p) ==
    LET c == clone[p]
        result == GitError(ExhaustedMessage(c.refs, c.last_error))
    IN
    /\ c.pc = "loop"
    /\ c.idx > Len(c.refs)
    /\ clone' = [clone EXCEPT ![p].pc = "done", ![p].result = result]
    /\ DropTempDir(c)
    /\ UNCHANGED <<remote, pushes, held, refresh, validate>>

\* Mutant: a failure of repo.head() falls back to the next candidate.
OnHeadErr_fallback(c, e) ==
    [c EXCEPT !.pc = "loop", !.idx = c.idx + 1, !.last_error = e]

\* On a failure of repo.head(): the error is returned, nothing else is tried.
OnHeadErr(c, e) ==
    [c EXCEPT !.pc = "done", !.result = GitError(<<"Failed to get HEAD: ", e>>)]

\* let head = repo.head().map_err(...)?;
RepoHead(p) ==
    LET c == clone[p] IN
    /\ c.pc = "head"
    /\ \/ /\ fs[c.repo_path].kind = "repo"
          /\ clone' = [clone EXCEPT ![p].pc = "peel",
                                    ![p].head_commit = fs[c.repo_path].head]
          /\ UNCHANGED fs
       \/ \E e \in ErrTexts :
            /\ clone' = [clone EXCEPT ![p] = OnHeadErr(c, e)]
            /\ IF OnHeadErr(c, e).pc = "done" THEN DropTempDir(c) ELSE UNCHANGED fs
    /\ UNCHANGED <<remote, pushes, held, refresh, validate>>

\* Mutant: the id is looked up on the remote when it is needed.
CommitSha_remote(c) == OidToString(remote[c.resolved_ref])

\* head.peel_to_commit()?.id().to_string()
CommitSha(c) == OidToString(c.head_commit)

\* Ok(ResolvedGitSource { temp_dir, repo_path, resolved_ref, commit_sha })
ResolvedGitSource(c) ==
    [temp_dir |-> c.temp_dir, repo_path |-> c.repo_path,
     resolved_ref |-> c.resolved_ref, commit_sha |-> CommitSha(c)]

\* let commit_sha = head.peel_to_commit().map_err(...)?.id().to_string(); Ok(...)
Peel(p) ==
    LET c == clone[p] IN
    /\ c.pc = "peel"
    /\ \/ /\ fs[c.repo_path].kind = "repo"
          /\ clone' = [clone EXCEPT ![p].pc = "done", ![p].result = Ok,
                                    ![p].value = ResolvedGitSource(c)]
          /\ UNCHANGED fs
       \/ \E e \in ErrTexts :
            LET result == GitError(<<"Failed to get commit: ", e>>) IN
            /\ clone' = [clone EXCEPT ![p].pc = "done", ![p].result = result]
            /\ DropTempDir(c)
    /\ UNCHANGED <<remote, pushes, held, refresh, validate>>

\* The caller takes the result: it holds a ResolvedGitSource it was given.
CloneReturn(p) ==
    /\ clone[p].pc = "done"
    /\ held' = IF clone[p].result.tag = "Ok" THEN held \cup {clone[p].value} ELSE held
    /\ clone' = [clone EXCEPT ![p] = CloneIdle]
    /\ UNCHANGED <<remote, pushes, fs, refresh, validate>>

\* A caller, between two calls, releases a ResolvedGitSource: its temp_dir is
\* dropped.
Release(p, h) ==
    /\ Idle(p)
    /\ h \in held
    /\ held' = held \ {h}
    /\ \E s \in RemoveDirAll(fs[h.temp_dir]) :
            fs' = [fs EXCEPT ![h.temp_dir] = s]
    /\ UNCHANGED <<remote, pushes, clone, refresh, validate>>

\* The commit a push puts on top of commit k (a new branch starts at the first).
NextCommit(k) ==
    CASE k = NoCommit -> 10
      [] k = 10 -> 27
      [] k = 27 -> 171
      [] OTHER -> k

\* Somebody pushes to the remote: branch b moves on to its next commit.
Push(b) ==
    /\ pushes < MaxPush
    /\ NextCommit(remote[b]) # remote[b]
    /\ remote' = [remote EXCEPT ![b] = NextCommit(remote[b])]
    /\ pushes' = pushes + 1
    /\ UNCHANGED <<fs, clone, held, refresh, validate>>

(***************************************************************************)
(* The clone resolver, called by one caller at a time.                     *)
(***************************************************************************)
InitClone ==
    /\ remote \in [Branches -> {NoCommit, 10}]
    /\ pushes = 0
    /\ fs = [d \in Dirs |-> DirAbsent]
    /\ clone = [p \in Procs |-> CloneIdle]
    /\ held = {}
    /\ refresh = [p \in Procs |-> RefreshIdle]
    /\ validate = [p \in Procs |-> ValidateIdle]

NextClone ==
    \/ \E url \in Urls, git_ref \in GitRefs, shallow \in BOOLEAN :
            CloneCall("p1", url, git_ref, shallow)
    \/ TempDirNew("p1")
    \/ LoopPurge("p1")
    \/ CloneAttempt("p1")
    \/ Exhausted("p1")
    \/ RepoHead("p1")
    \/ Peel("p1")
    \/ CloneReturn("p1")
    \/ \E h \in held : Release("p1", h)
    \/ \E b \in Branches : Push(b)

SpecClone == InitClone /\ [][NextClone]_vars

(***************************************************************************)
(* Properties of the clone resolver.                                       *)
(***************************************************************************)
\* The refs a log of attempts asked for, in order.
AttemptRefs(a) == [i \in 1..Len(a) |-> a[i].ref]

IsPrefix(s, t) == Len(s) <= Len(t) /\ s = SubSeq(t, 1, Len(s))

ReturnedOk(c) == c.pc = "done" /\ c.result.tag = "Ok"

\* C1: first success wins.  The clone attempts are the candidates in list order,
\* each once; only the last attempt made can be a success, after a success no
\* further candidate is attempted, and when clone_and_resolve returns Ok its
\* resolved_ref is a candidate of the list, the one whose attempt succeeded,
\* every candidate before it having failed.
C1_FirstSuccessWins ==
    \A p \in Procs :
        LET c == clone[p]
            a == c.attempts
            n == Len(a)
        IN
        /\ IsPrefix(AttemptRefs(a), c.refs)
        /\ \A i \in 1..n : a[i].ok => i = n /\ c.pc \in {"head", "peel", "done"}
        /\ ReturnedOk(c) =>
            /\ n >= 1
            /\ a[n].ok
            /\ c.value.resolved_ref = c.refs[n]
            /\ \E i \in 1..Len(c.refs) : c.refs[i] = c.value.resolved_ref
            /\ \A i \in 1..(n - 1) : ~a[i].ok

\* A call that returned Ok from its second candidate.
C1_Witness ==
    \E p \in Procs :
        /\ ReturnedOk(clone[p])
        /\ Len(clone[p].attempts) = 2
        /\ ~clone[p].attempts[1].ok

\* C2: when the primary candidate's clone failed and the secondary's succeeded,
\* resolved_ref is the secondary's name and the target directory holds the
\* secondary's clone and nothing else: the secondary attempt started on a target
\* that was absent or empty, whatever the primary attempt had left.
C2_SecondaryNoResidue ==
    \A p \in Procs :
        LET c == clone[p]
            a == c.attempts
        IN
        (ReturnedOk(c) /\ c.git_ref = "auto" /\ Len(a) = 2 /\ ~a[1].ok /\ a[2].ok) =>
            /\ c.value.resolved_ref = "master"
            /\ a[2].target \in {"absent", "empty"}
            /\ fs[c.value.repo_path] = DirRepo("master", a[2].commit)
            /\ ~fs[c.value.repo_path].residue

\* The secondary succeeded after the primary had left partial content behind.
C2_Witness ==
    \E p \in Procs :
        LET c == clone[p] IN
        /\ ReturnedOk(c) /\ c.git_ref = "auto" /\ Len(c.attempts) = 2
        /\ c.attempts[2].pre = "partial"
        /\ c.attempts[2].ok

\* C3: when every candidate's clone attempt has failed, the call returns a
\* GitError whose message names the candidates, all of them and in order, and
\* carries the description of the last attempt's error and of no other.
C3_ExhaustedMessage ==
    \A p \in Procs :
        LET c == clone[p]
            a == c.attempts
            n == Len(a)
            m == c.result.message
        IN
        (c.pc = "done" /\ n >= 1 /\ n = Len(c.refs) /\ \A i \in 1..n : ~a[i].ok) =>
            /\ c.result.tag = "GitError"
            /\ SelectSeq(m, LAMBDA x : x \in Branches) = c.refs
            /\ {m[i] : i \in 1..Len(m)} \cap ErrTexts = {a[n].err}
            /\ m[Len(m)] = a[n].err

\* Both candidates failed, with different errors.
C3_Witness ==
    \E p \in Procs :
        LET c == clone[p] IN
        /\ c.pc = "done" /\ Len(c.attempts) = 2
        /\ ~c.attempts[1].ok /\ ~c.attempts[2].ok
        /\ c.attempts[1].err # c.attempts[2].err

\* C4 as claimed: for "auto" the attempts are a prefix of ("main", "master"),
\* and for any other ref a call that has returned made exactly one attempt,
\* for that ref.
C4_ExactlyOneAttempt ==
    \A p \in Procs :
        LET c == clone[p]
            r == AttemptRefs(c.attempts)
        IN
        c.pc = "done" =>
            IF c.git_ref = "auto" THEN IsPrefix(r, <<"main", "master">>)
            ELSE r = <<c.git_ref>>

\* C4 (amended): for "auto" the clone attempts are at every moment a prefix of
\* ("main", "master"), never with a third candidate; for any other ref at most
\* one attempt is made, for that ref, and a call that has returned made exactly
\* one unless the temporary directory could not be created, in which case it
\* made none.
C4_AttemptsBounded ==
    \A p \in Procs :
        LET c == clone[p]
            r == AttemptRefs(c.attempts)
        IN
        c.pc # "idle" =>
            IF c.git_ref = "auto" THEN IsPrefix(r, <<"main", "master">>)
            ELSE /\ IsPrefix(r, <<c.git_ref>>)
                 /\ c.pc = "done" =>
                        IF c.result.tag = "Io" THEN r = <<>> ELSE r = <<c.git_ref>>

\* A call for a named ref has returned after its single attempt failed.
C4_Witness ==
    \E p \in Procs :
        LET c == clone[p] IN
        /\ c.pc = "done" /\ c.result.tag = "GitError"
        /\ c.git_ref = "master" /\ Len(c.attempts) = 1 /\ ~c.attempts[1].ok

\* C5: no partial success.  When a candidate's clone succeeded and the call
\* returns anything but Ok (reading HEAD or resolving the commit failed), it
\* returns a GitError and no ResolvedGitSource, the caller comes to hold nothing,
\* and the successful attempt is the last attempt made: no remaining candidate
\* was tried.
C5_NoPartialSuccess ==
    \A p \in Procs :
        LET c == clone[p]
            a == c.attempts
        IN
        (c.pc = "done" /\ c.result.tag # "Ok" /\ \E i \in 1..Len(a) : a[i].ok) =>
            /\ c.result.tag = "GitError"
            /\ c.result.message[1] \in {"Failed to get HEAD: ", "Failed to get commit: "}
            /\ c.value = NoSource
            /\ a[Len(a)].ok
            /\ \A h \in held : h.temp_dir # c.temp_dir

\* The primary's clone succeeded, the commit could not be resolved, and the
\* call has returned its error with the secondary untried.
C5_Witness ==
    \E p \in Procs :
        LET c == clone[p] IN
        /\ c.pc = "done" /\ c.result.tag = "GitError"
        /\ c.git_ref = "auto" /\ Len(c.attempts) = 1 /\ c.attempts[1].ok

\* The object id a hexadecimal string of two digits names.
HexValue(ch) ==
    CHOOSE n \in 0..15 :
        ch = <<"0", "1", "2", "3", "4", "5", "6", "7", "8", "9",
               "a", "b", "c", "d", "e", "f">>[n + 1]
ParseOid(sha) == HexValue(sha[1]) * 16 + HexValue(sha[2])

\* C6: when clone_and_resolve returns Ok, commit_sha names the commit that
\* resolved_ref named on the remote at the moment of the successful clone
\* attempt, which is the HEAD of the clone in the target directory.
C6_CommitOfResolvedRef ==
    \A p \in Procs :
        LET c == clone[p]
            a == c.attempts
        IN
        ReturnedOk(c) =>
            /\ Len(c.value.commit_sha) = 2
            /\ ParseOid(c.value.commit_sha) = a[Len(a)].commit
            /\ a[Len(a)].ref = c.value.resolved_ref
            /\ ParseOid(c.value.commit_sha) = fs[c.value.repo_path].head
            /\ fs[c.value.repo_path].branch = c.value.resolved_ref

\* The call returned Ok although the remote's branch has moved on since the clone.
C6_Witness ==
    \E p \in Procs :
        LET c == clone[p] IN
        /\ ReturnedOk(c)
        /\ Len(c.attempts) = 2
        /\ remote[c.value.resolved_ref] # c.attempts[2].commit

\* C10: a clone attempt carries the credential callback exactly when the URL
\* starts with "git@" or "ssh://", the same for every attempt of a call.
C10_CredentialsOnlyForSsh ==
    \A p \in Procs :
        LET c == clone[p]
            u == c.url
            ssh == \/ Len(u) >= 4 /\ <<u[1], u[2], u[3], u[4]>> = <<"g", "i", "t", "@">>
                   \/ Len(u) >= 6 /\ <<u[1], u[2], u[3], u[4], u[5], u[6]>>
                                        = <<"s", "s", "h", ":", "/", "/">>
        IN
        \A i \in 1..Len(c.attempts) : c.attempts[i].creds = ssh

\* Both candidates were attempted for a "git@" URL, each with the callback.
C10_Witness ==
    \E p \in Procs :
        LET c == clone[p] IN
        /\ c.url = UrlGitAt
        /\ Len(c.attempts) = 2
        /\ c.attempts[1].creds /\ c.attempts[2].creds

\* C11: for an SSH-style URL, an attempt that finds no SSH agent to reach fails
\* like any other attempt: it is logged as a failure with the library's error,
\* the loop goes on to the next candidate when there is one, and a call all of
\* whose attempts failed returns the GitError of the exhausted candidate list,
\* with every candidate tried: no other kind of error comes out of the loop.
C11_NoAgentIsOrdinaryFailure ==
    \A p \in Procs :
        LET c == clone[p]
            a == c.attempts
            n == Len(a)
        IN
        /\ \A i \in 1..n :
            a[i].agent = "unreachable" =>
                /\ a[i].creds /\ IsSsh(c.url)
                /\ ~a[i].ok
                /\ a[i].err \in ErrTexts
                /\ (i < Len(c.refs) /\ c.pc = "done") => n > i
                /\ (i < n) => a[i + 1].ref = c.refs[i + 1]
        /\ (c.pc = "done" /\ n >= 1 /\ \A i \in 1..n : ~a[i].ok) =>
                /\ n = Len(c.refs)
                /\ c.result = GitError(ExhaustedMessage(c.refs, a[n].err))
        /\ c.pc = "done" => c.result.tag \in {"Ok", "Io", "GitError"}

\* For a "git@" URL the first candidate found no agent and the call went on to
\* the second, which found none either: the call has returned.
C11_Witness ==
    \E p \in Procs :
        LET c == clone[p] IN
        /\ c.pc = "done" /\ c.url = UrlGitAt /\ c.git_ref = "auto"
        /\ Len(c.attempts) = 2
        /\ c.attempts[1].agent = "unreachable" /\ c.attempts[2].agent = "unreachable"
        /\ c.result.tag = "GitError"

\* The ResolvedGitSource values that are live: those callers hold and those a
\* call has just returned.
Returned == {clone[p].value : p \in {q \in Procs : ReturnedOk(clone[q])}}
Live == held \cup Returned

\* C12: for every ResolvedGitSource clone_and_resolve returned, repo_path lies
\* in the directory of its temp_dir handle (it is that directory's path), the
\* directory exists, with the working copy in it, in every state in which the
\* value is held, and when the value is released the directory and its content
\* are gone.
C12_HandleOwnsDirectory ==
    /\ [](\A h \in Live :
            /\ h.temp_dir \in Dirs
            /\ h.repo_path = h.temp_dir
            /\ fs[h.temp_dir].kind = "repo")
    /\ [][\A h \in held : h \notin held' => fs'[h.temp_dir].kind = "absent"]_vars

\* C15: when clone_and_resolve has returned a GitError (every candidate failed,
\* or reading HEAD or resolving the commit failed after a successful clone),
\* the ephemeral directory the call allocated does not exist any more, nor
\* anything that was cloned into it.
C15_FailedResolveLeaksNothing ==
    \A p \in Procs :
        LET c == clone[p] IN
        (c.pc = "done" /\ c.result.tag = "GitError") =>
            /\ c.temp_dir \in Dirs
            /\ fs[c.temp_dir] = DirAbsent

(***************************************************************************)
(* The clone resolver called by two callers at a time, each step of one    *)
(* call interleaved with the steps of the other.                          *)
(***************************************************************************)
\* What the two callers ask for.
ConcurrentUrls == {UrlHttps}
ConcurrentRefs == {"main"}

\* The remote has the branch "main" and may have "master".
InitConcurrent ==
    /\ InitClone
    /\ remote["main"] # NoCommit

NextConcurrent ==
    \E p \in Procs :
        \/ \E url \in ConcurrentUrls, git_ref \in ConcurrentRefs :
                CloneCall(p, url, git_ref, FALSE)
        \/ TempDirNew(p)
        \/ LoopPurge(p)
        \/ CloneAttempt(p)
        \/ Exhausted(p)
        \/ RepoHead(p)
        \/ Peel(p)
        \/ CloneReturn(p)
        \/ \E h \in held : Release(p, h)

SpecConcurrent == InitConcurrent /\ [][NextConcurrent]_vars

\* A call owns an ephemeral directory from TempDir::new on, until it returns an
\* error (which drops the handle) or hands the handle over in its Ok value.
OwnsDir(p) == clone[p].pc \in {"loop", "clone", "head", "peel"}

\* C13: across clone_and_resolve calls in any interleaving, the ephemeral
\* directory of one call is never the clone target of another call in progress,
\* nor the directory of a live ResolvedGitSource another call returned, and no
\* two live ResolvedGitSource values have the same repo_path.
C13_ExclusiveDirectory ==
    /\ \A p, q \in Procs :
            (p # q /\ OwnsDir(p) /\ OwnsDir(q)) => clone[p].repo_path # clone[q].repo_path
    /\ \A p \in Procs : \A h \in held :
            OwnsDir(p) => clone[p].repo_path # h.temp_dir
    /\ \A p, q \in Procs :
            (p # q /\ ReturnedOk(clone[p])) =>
                /\ OwnsDir(q) => clone[q].repo_path # clone[p].value.temp_dir
                /\ ReturnedOk(clone[q]) =>
                        clone[q].value.repo_path # clone[p].value.repo_path
    /\ \A p \in Procs : \A h \in held :
            ReturnedOk(clone[p]) => clone[p].value.repo_path # h.repo_path
    /\ \A h1, h2 \in held : h1 # h2 => h1.repo_path # h2.repo_path

(***************************************************************************)
(* fetch_and_checkout.                                                     *)
(***************************************************************************)
\* The message each failing step's map_err builds.
RefreshContext(step) ==
    CASE step = "open" -> "Failed to open repository: "
      [] step = "find_remote" -> "Failed to find remote 'origin': "
      [] step = "fetch" -> "Failed to fetch: "
      [] step = "find_fetch_head" -> "Failed to find FETCH_HEAD: "
      [] step = "peel" -> "Failed to get commit: "
      [] step = "checkout" -> "Failed to checkout: "

\* The step after `step`.
StepAfter(step) ==
    CASE step = "open" -> "find_remote"
      [] step = "find_remote" -> "fetch"
      [] step = "fetch" -> "find_fetch_head"
      [] step = "find_fetch_head" -> "peel"
      [] step = "peel" -> "checkout"
      [] step = "checkout" -> "done"

\* Mutant: a failed fetch is tried again.
StepFailed_retry(r, step, e) ==
    IF step = "fetch"
    THEN [r EXCEPT !.steps = Append(r.steps, [name |-> step, ok |-> FALSE])]
    ELSE [r EXCEPT !.pc = "done",
                   !.steps = Append(r.steps, [name |-> step, ok |-> FALSE]),
                   !.result = GitError(<<RefreshContext(step), e>>)]

\* .map_err(|e| ApsError::GitError { message: format!("...: {}", e) })?
StepFailed(r, step, e) ==
    [r EXCEPT !.pc = "done",
              !.steps = Append(r.steps, [name |-> step, ok |-> FALSE]),
              !.result = GitError(<<RefreshContext(step), e>>)]

\* A step that returned Ok: on to the next statement.
StepDone(r, step) ==
    [r EXCEPT !.pc = StepAfter(step),
              !.steps = Append(r.steps, [name |-> step, ok |-> TRUE])]

\* The caller enters fetch_and_checkout(repo_path, git_ref).
RefreshCall(p, d, git_ref) ==
    /\ Idle(p)
    /\ refresh' = [refresh EXCEPT ![p] =
            [RefreshIdle EXCEPT !.pc = "open", !.repo_path = d, !.git_ref = git_ref,
                                !.before = fs[d]]]
    /\ UNCHANGED <<remote, pushes, fs, clone, held, validate>>

\* Repository::open(repo_path)
Open(p) ==
    LET r == refresh[p] IN
    /\ r.pc = "open"
    /\ \/ /\ fs[r.repo_path].kind = "repo"
          /\ refresh' = [refresh EXCEPT ![p] = StepDone(r, "open")]
       \/ \E e \in ErrTexts :
            refresh' = [refresh EXCEPT ![p] = StepFailed(r, "open", e)]
    /\ UNCHANGED <<remote, pushes, fs, clone, held, validate>>

\* repo.find_remote("origin"): the remote the repository's configuration names
\* "origin", with the URL it has there.
FindRemote(p) ==
    LET r == refresh[p] IN
    /\ r.pc = "find_remote"
    /\ \/ \E url \in Urls :
            refresh' = [refresh EXCEPT ![p] =
                [StepDone(r, "find_remote") EXCEPT !.origin_url = url]]
       \/ \E e \in ErrTexts :
            refresh' = [refresh EXCEPT ![p] = StepFailed(r, "find_remote", e)]
    /\ UNCHANGED <<remote, pushes, fs, clone, held, validate>>

\* What the remote holds for a ref name.
RemoteTip(git_ref) == IF git_ref \in Branches THEN remote[git_ref] ELSE NoCommit

\* Mutant: the callback is attached as the clone attaches it, for SSH URLs only.
FetchCreds_scheme(url) == IsSsh(url)

\* fetch_opts.remote_callbacks(callbacks): the callback is attached, whatever the URL.
FetchCreds(url) == TRUE

\* Mutant: the fetch is a pull, it also brings the working tree to the tip.
FetchLeaves_pull(repo, tip) ==
    [repo EXCEPT !.fetch_head = tip, !.wt = IF tip = NoCommit THEN repo.wt ELSE Tree(tip)]

\* What a fetch that returns Ok has written to the repository: FETCH_HEAD, and
\* neither HEAD nor a file of the working tree.
FetchLeaves(repo, tip) == [repo EXCEPT !.fetch_head = tip]

\* remote.fetch(&[git_ref], Some(&mut fetch_opts), None): a fetch that returns Ok
\* has rewritten FETCH_HEAD, which is empty when the remote has no such ref.
Fetch(p) ==
    LET r == refresh[p] IN
    /\ r.pc = "fetch"
    /\ \/ /\ fs' = [fs EXCEPT ![r.repo_path] =
                        FetchLeaves(fs[r.repo_path], RemoteTip(r.git_ref))]
          /\ refresh' = [refresh EXCEPT ![p] =
                [StepDone(r, "fetch") EXCEPT !.creds = FetchCreds(r.origin_url),
                                             !.fetched = RemoteTip(r.git_ref)]]
       \/ \E e \in ErrTexts :
            /\ refresh' = [refresh EXCEPT ![p] =
                    [StepFailed(r, "fetch", e) EXCEPT !.creds = FetchCreds(r.origin_url)]]
            /\ UNCHANGED fs
    /\ UNCHANGED <<remote, pushes, clone, held, validate>>

\* repo.find_reference("FETCH_HEAD")
FindFetchHead(p) ==
    LET r == refresh[p] IN
    /\ r.pc = "find_fetch_head"
    /\ \/ /\ fs[r.repo_path].fetch_head # NoCommit
          /\ refresh' = [refresh EXCEPT ![p] = StepDone(r, "find_fetch_head")]
       \/ \E e \in ErrTexts :
            refresh' = [refresh EXCEPT ![p] = StepFailed(r, "find_fetch_head", e)]
    /\ UNCHANGED <<remote, pushes, fs, clone, held, validate>>

\* fetch_head.peel_to_commit(), commit.id().to_string()
PeelFetchHead(p) ==
    LET r == refresh[p] IN
    /\ r.pc = "peel"
    /\ \/ refresh' = [refresh EXCEPT ![p] =
                [StepDone(r, "peel") EXCEPT
                    !.commit = fs[r.repo_path].fetch_head,
                    !.commit_sha = OidToString(fs[r.repo_path].fetch_head)]]
       \/ \E e \in ErrTexts :
            refresh' = [refresh EXCEPT ![p] = StepFailed(r, "peel", e)]
    /\ UNCHANGED <<remote, pushes, fs, clone, held, validate>>

\* checkout_tree(&obj, None) is libgit2's default strategy, GIT_CHECKOUT_SAFE,
\* with the HEAD tree as the baseline.  A file that differs between baseline and
\* target is a conflict when the working tree holds something else than either.
CheckoutConflict(base, target, wt) ==
    \E f \in Files :
        /\ base[f] # target[f]
        /\ wt[f] \notin {base[f], target[f], NoBlob}

\* A file that differs between baseline and target is written (or removed); a
\* file that is the same in both is left as the working tree has it.
CheckoutTree(base, target, wt) ==
    [f \in Files |-> IF base[f] # target[f] THEN target[f] ELSE wt[f]]

\* Mutant: the checkout also moves HEAD to the commit, detached.
CheckoutLeaves_sethead(repo, commit) ==
    [repo EXCEPT !.wt = CheckoutTree(Tree(repo.head), Tree(commit), repo.wt),
                 !.head = commit, !.branch = NoRef]

\* What checkout_tree that returns Ok has written to the repository: the files
\* of the working tree, and not HEAD (the code calls no set_head).
CheckoutLeaves(repo, commit) ==
    [repo EXCEPT !.wt = CheckoutTree(Tree(repo.head), Tree(commit), repo.wt)]

\* repo.checkout_tree(&obj, None), then Ok((git_ref.to_string(), commit_sha))
Checkout(p) ==
    LET r == refresh[p]
        repo == fs[r.repo_path]
        base == Tree(repo.head)
        target == Tree(r.commit)
    IN
    /\ r.pc = "checkout"
    /\ \/ /\ ~CheckoutConflict(base, target, repo.wt)
          /\ fs' = [fs EXCEPT ![r.repo_path] = CheckoutLeaves(repo, r.commit)]
          /\ refresh' = [refresh EXCEPT ![p] =
                [StepDone(r, "checkout") EXCEPT
                    !.result = Ok,
                    !.value = [ref |-> r.git_ref, sha |-> r.commit_sha]]]
       \/ \E e \in ErrTexts :
            /\ refresh' = [refresh EXCEPT ![p] = StepFailed(r, "checkout", e)]
            /\ UNCHANGED fs
    /\ UNCHANGED <<remote, pushes, clone, held, validate>>

\* The caller takes the result.
RefreshReturn(p) ==
    /\ refresh[p].pc = "done"
    /\ refresh' = [refresh EXCEPT ![p] = RefreshIdle]
    /\ UNCHANGED <<remote, pushes, fs, clone, held, validate>>

(***************************************************************************)
(* The refresh operator, called by one caller on the working copy of an    *)
(* earlier clone_and_resolve.                                              *)
(***************************************************************************)
InitRefresh ==
    /\ remote \in [Branches -> {NoCommit, 10, 27}]
    /\ pushes = 0
    /\ \E b \in Branches, k \in Commits :
        /\ fs = [d \in Dirs |-> IF d = "t1" THEN DirRepo(b, k) ELSE DirAbsent]
        /\ held = {[temp_dir |-> "t1", repo_path |-> "t1", resolved_ref |-> b,
                    commit_sha |-> OidToString(k)]}
    /\ clone = [p \in Procs |-> CloneIdle]
    /\ refresh = [p \in Procs |-> RefreshIdle]
    /\ validate = [p \in Procs |-> ValidateIdle]

NextRefresh ==
    \/ \E d \in Dirs, git_ref \in GitRefs : RefreshCall("p1", d, git_ref)
    \/ Open("p1")
    \/ FindRemote("p1")
    \/ Fetch("p1")
    \/ FindFetchHead("p1")
    \/ PeelFetchHead("p1")
    \/ Checkout("p1")
    \/ RefreshReturn("p1")
    \/ \E h \in held : Release("p1", h)
    \/ \E b \in Branches : Push(b)

SpecRefresh == InitRefresh /\ [][NextRefresh]_vars

(***************************************************************************)
(* Properties of the refresh operator.                                     *)
(***************************************************************************)
\* C7: fetch_and_checkout runs open, find remote, fetch, find FETCH_HEAD,
\* resolve to commit, checkout in this order, each at most once; a step that
\* fails is the last step run and the call has returned a GitError with it; the
\* call returns Ok only when all six steps have run and succeeded.
C7_StepsInOrderNoRetry ==
    \A p \in Procs :
        LET r == refresh[p]
            st == r.steps
            n == Len(st)
        IN
        /\ IsPrefix([i \in 1..n |-> st[i].name],
                    <<"open", "find_remote", "fetch", "find_fetch_head", "peel", "checkout">>)
        /\ \A i \in 1..n :
            ~st[i].ok => /\ i = n
                         /\ r.pc = "done"
                         /\ r.result.tag = "GitError"
        /\ r.pc = "done" =>
            /\ r.result.tag \in {"Ok", "GitError"}
            /\ r.result.tag = "Ok" <=> (n = 6 /\ \A i \in 1..n : st[i].ok)
        /\ (r.pc \notin {"idle", "done"}) => \A i \in 1..n : st[i].ok

\* The fetch failed: the call has returned after three steps.
C7_Witness ==
    \E p \in Procs :
        LET r == refresh[p] IN
        /\ r.pc = "done" /\ r.result.tag = "GitError"
        /\ Len(r.steps) = 3 /\ ~r.steps[3].ok

\* C8: when fetch_and_checkout(repo_path, ref) returns Ok, it returns (ref, sha)
\* with ref the input ref and sha the id of the commit just fetched for that ref
\* from "origin", and the working copy's files are those of that commit's tree.
C8_RefreshMatchesCommit ==
    \A p \in Procs :
        LET r == refresh[p] IN
        (r.pc = "done" /\ r.result.tag = "Ok") =>
            /\ r.value.ref = r.git_ref
            /\ r.fetched \in Commits
            /\ ParseOid(r.value.sha) = r.fetched
            /\ fs[r.repo_path].wt = Tree(r.fetched)

\* C16: when fetch_and_checkout fails at a step before the checkout (open, find
\* remote, fetch, find FETCH_HEAD, resolve commit), the tracked files of the
\* working copy are what they were when the call was made; and as long as a
\* call has not run its checkout step the files are untouched.
C16_FailureBeforeCheckoutKeepsFiles ==
    \A p \in Procs :
        LET r == refresh[p]
            n == Len(r.steps)
        IN
        /\ (r.pc = "done" /\ r.result.tag = "GitError" /\ r.steps[n].name # "checkout") =>
                fs[r.repo_path].wt = r.before.wt
        /\ (r.pc \notin {"idle", "done"}) => fs[r.repo_path].wt = r.before.wt

\* The fetch brought a commit whose tree differs from the working copy's files,
\* and the call failed resolving it.
C16_Witness ==
    \E p \in Procs :
        LET r == refresh[p] IN
        /\ r.pc = "done" /\ r.result.tag = "GitError"
        /\ Len(r.steps) = 5 /\ r.steps[5].name = "peel"
        /\ r.fetched \in Commits
        /\ Tree(r.fetched) # r.before.wt

\* C17: fetch_and_checkout never changes HEAD.  During and after any call,
\* successful or not, HEAD names the branch and the commit it named when the
\* call was made, also when the checkout has written the files of another
\* commit to the working tree.
C17_HeadUnchanged ==
    \A p \in Procs :
        LET r == refresh[p] IN
        r.pc # "idle" =>
            /\ fs[r.repo_path].head = r.before.head
            /\ fs[r.repo_path].branch = r.before.branch

\* The call returned Ok having checked out a commit that is not HEAD's, and
\* the files are now that commit's.
C17_Witness ==
    \E p \in Procs :
        LET r == refresh[p] IN
        /\ r.pc = "done" /\ r.result.tag = "Ok"
        /\ r.commit # r.before.head
        /\ fs[r.repo_path].wt = Tree(r.commit)
        /\ fs[r.repo_path].wt # r.before.wt

\* Has the call of r run its fetch, whatever came of it?
FetchRun(r) == Len(r.steps) >= 3

\* C14: every fetch of fetch_and_checkout carries the SSH-agent credential
\* callback, whatever the scheme of the URL of "origin": also for a URL that is
\* not SSH-like, for which a clone attempt of clone_and_resolve carries none
\* (a clone attempt carries it exactly for the SSH-like URLs).
C14_RefreshAlwaysAttaches ==
    \A p \in Procs :
        LET r == refresh[p]
            of_clone == Attempt([CloneIdle EXCEPT !.url = r.origin_url,
                                                  !.is_ssh = IsSsh(r.origin_url),
                                                  !.refs = <<r.git_ref>>],
                                NoAgentUse, "empty", FALSE, NoErr, NoCommit)
        IN
        FetchRun(r) =>
            /\ r.origin_url \in Urls
            /\ r.creds
            /\ of_clone.creds <=> r.origin_url \in {UrlGitAt, UrlSsh}
            /\ r.origin_url \in {UrlHttps, UrlShort} => r.creds # of_clone.creds

\* A fetch from an "https://" origin has run with the callback attached, and
\* the call went on to return Ok.
C14_Witness ==
    \E p \in Procs :
        LET r == refresh[p] IN
        /\ r.pc = "done" /\ r.result.tag = "Ok"
        /\ r.origin_url = UrlHttps
        /\ r.creds

(***************************************************************************)
(* validate_path_exists.  A path is the sequence of its components, "/"    *)
(* first when it is absolute.  The ephemeral directories lie in the root.  *)
(***************************************************************************)
DirPath(d) == <<"/", d>>

\* The asset paths a caller passes.
AssetPaths ==
    {<<"f">>, <<"n">>, <<".git">>, <<".", "f">>, <<"f", "..", "f">>,
     <<"..", "t2">>, <<"..", "t2", "f">>, <<"/", "t2">>, <<>>}

\* Path::join: an absolute argument replaces the path, a relative one is appended.
PathJoin(base, path) ==
    IF Len(path) > 0 /\ path[1] = "/" THEN path ELSE base \o path

\* The filesystem's tree: the root holds the directories, a repository holds
\* .git and its working tree's files, what a failed clone left holds .git.
NodeExists(n) ==
    \/ Len(n) = 0
    \/ Len(n) = 1 /\ n[1] \in Dirs /\ fs[n[1]].kind # "absent"
    \/ /\ Len(n) = 2 /\ n[1] \in Dirs
       /\ \/ fs[n[1]].kind \in {"repo", "partial"} /\ n[2] = ".git"
          \/ fs[n[1]].kind = "repo" /\ n[2] \in Files /\ fs[n[1]].wt[n[2]] # NoBlob

IsDirNode(n) == Len(n) <= 1 \/ (Len(n) = 2 /\ n[2] = ".git")

\* The system's path resolution, component by component: "." stays, ".." goes
\* up (the root is its own parent), a name must exist in a directory.
RECURSIVE Walk(_, _)
Walk(node, comps) ==
    IF Len(comps) = 0 THEN NodeExists(node)
    ELSE IF ~(NodeExists(node) /\ IsDirNode(node)) THEN FALSE
    ELSE IF Head(comps) = "." THEN Walk(node, Tail(comps))
    ELSE IF Head(comps) = ".."
         THEN Walk(IF Len(node) = 0 THEN node ELSE SubSeq(node, 1, Len(node) - 1),
                   Tail(comps))
    ELSE Walk(Append(node, Head(comps)), Tail(comps))

\* Path::exists, of an absolute path.
PathExists(path) == Walk(<<>>, Tail(path))

\* ApsError::SourcePathNotFound { path }
SourcePathNotFound == [tag |-> "SourcePathNotFound", message |-> <<>>]

\* The canonical form of an absolute path: "." dropped, ".." resolved against
\* the component before it (the root is its own parent).
RECURSIVE CanonicalFrom(_, _)
CanonicalFrom(done, comps) ==
    IF Len(comps) = 0 THEN done
    ELSE IF Head(comps) = "." THEN CanonicalFrom(done, Tail(comps))
    ELSE IF Head(comps) = ".."
         THEN CanonicalFrom(IF Len(done) <= 1 THEN done ELSE SubSeq(done, 1, Len(done) - 1),
                            Tail(comps))
    ELSE CanonicalFrom(Append(done, Head(comps)), Tail(comps))
Canonical(path) == CanonicalFrom(<<"/">>, Tail(path))

\* Mutant: a containment check; a path that leaves the root is not found.
ValidatePathExists_contained(repo_path, asset_path) ==
    LET full_path == PathJoin(repo_path, asset_path) IN
    IF ~PathExists(full_path) \/ ~IsPrefix(repo_path, Canonical(full_path))
    THEN [result |-> SourcePathNotFound, path |-> full_path]
    ELSE [result |-> Ok, path |-> full_path]

\* Mutant: only the repository root is looked at.
ValidatePathExists_root(repo_path, asset_path) ==
    LET full_path == PathJoin(repo_path, asset_path) IN
    IF ~PathExists(repo_path)
    THEN [result |-> SourcePathNotFound, path |-> full_path]
    ELSE [result |-> Ok, path |-> full_path]

\* validate_path_exists(repo_path, asset_path)
ValidatePathExists(repo_path, asset_path) ==
    LET full_path == PathJoin(repo_path, asset_path) IN
    IF ~PathExists(full_path)
    THEN [result |-> SourcePathNotFound, path |-> full_path]
    ELSE [result |-> Ok, path |-> full_path]

\* A caller calls validate_path_exists and has its result.
Validate(p, d, asset_path) ==
    LET v == ValidatePathExists(DirPath(d), asset_path) IN
    /\ Idle(p)
    /\ validate' = [validate EXCEPT ![p] =
            [pc |-> "done", repo_path |-> DirPath(d), asset_path |-> asset_path,
             result |-> v.result, path |-> v.path]]
    /\ UNCHANGED <<remote, pushes, fs, clone, held, refresh>>

\* The caller takes the result.
ValidateReturn(p) ==
    /\ validate[p].pc = "done"
    /\ validate' = [validate EXCEPT ![p] = ValidateIdle]
    /\ UNCHANGED <<remote, pushes, fs, clone, held, refresh>>

(***************************************************************************)
(* The path validator, called on the directories clone_and_resolve leaves: *)
(* working copies whose handles are held, and what failed calls left.      *)
(***************************************************************************)
InitValidate ==
    /\ remote = [b \in Branches |-> 10]
    /\ pushes = 0
    /\ fs \in [Dirs -> {DirAbsent, DirEmpty, DirPartial,
                        DirRepo("main", 10), DirRepo("master", 27)}]
    /\ held = {[temp_dir |-> d, repo_path |-> d, resolved_ref |-> fs[d].branch,
                commit_sha |-> OidToString(fs[d].head)] :
               d \in {x \in Dirs : fs[x].kind = "repo"}}
    /\ clone = [p \in Procs |-> CloneIdle]
    /\ refresh = [p \in Procs |-> RefreshIdle]
    /\ validate = [p \in Procs |-> ValidateIdle]

NextValidate ==
    \/ \E d \in Dirs, asset_path \in AssetPaths : Validate("p1", d, asset_path)
    \/ ValidateReturn("p1")
    \/ \E h \in held : Release("p1", h)

SpecValidate == InitValidate /\ [][NextValidate]_vars

\* C9: for a root r and a relative path p, validate_path_exists(r, p) returns
\* Ok with r joined with p when the joined path exists, a file or a directory,
\* and SourcePathNotFound carrying the joined path when it does not.
C9_ValidateIffExists ==
    \A p \in Procs :
        LET v == validate[p]
            relative == Len(v.asset_path) = 0 \/ v.asset_path[1] # "/"
            joined == v.repo_path \o v.asset_path
        IN
        (v.pc = "done" /\ relative) =>
            /\ v.path = joined
            /\ v.result.tag = "Ok" <=> PathExists(joined)
            /\ v.result.tag = "SourcePathNotFound" <=> ~PathExists(joined)

\* A call for a missing file under an existing working copy has failed, the
\* file "f" being there.
C9_Witness ==
    \E p \in Procs :
        LET v == validate[p] IN
        /\ v.pc = "done"
        /\ v.asset_path = <<"n">>
        /\ v.result.tag = "SourcePathNotFound"
        /\ PathExists(v.repo_path \o <<"f">>)

\* Does the relative path p, joined to the root r, lead out of r?
Escapes(r, p) ==
    /\ \E i \in 1..Len(p) : p[i] = ".."
    /\ ~IsPrefix(r, Canonical(r \o p))

\* C18: validate_path_exists checks no containment.  For a relative path with
\* parent-directory segments that leads out of the root, the call returns Ok
\* whenever the joined path exists (and SourcePathNotFound only when it does
\* not), and the path it returns is the join as it stands, the ".." segments
\* still in it, not its canonical form.
C18_NoContainmentCheck ==
    \A p \in Procs :
        LET v == validate[p]
            relative == Len(v.asset_path) = 0 \/ v.asset_path[1] # "/"
            joined == v.repo_path \o v.asset_path
        IN
        (v.pc = "done" /\ relative /\ Escapes(v.repo_path, v.asset_path)) =>
            /\ PathExists(joined) => v.result.tag = "Ok"
            /\ ~PathExists(joined) => v.result.tag = "SourcePathNotFound"
            /\ v.path = joined
            /\ v.path # Canonical(joined)
            /\ \E i \in 1..Len(v.path) : v.path[i] = ".."

\* A call on one working copy was given "../t2/f" and returned Ok with the path
\* of a file of the other working copy.
C18_Witness ==
    \E p \in Procs :
        LET v == validate[p] IN
        /\ v.pc = "done"
        /\ v.repo_path = DirPath("t1")
        /\ v.asset_path = <<"..", "t2", "f">>
        /\ v.result.tag = "Ok"
        /\ v.path = <<"/", "t1", "..", "t2", "f">>
        /\ Canonical(v.path) = <<"/", "t2", "f">>

=============================================================================
